---- MODULE Spec2Model ----
(***************************************************************************)
(* ObserveAI agent: the monitoring loop (LogMonitor), the incident         *)
(* synthesizer (_create_incident), the alert fan-out (AlertManager) and    *)
(* the application lifespan / manual trigger of main.py.                   *)
(*                                                                         *)
(* Concurrency model: asyncio, one event loop.  A coroutine runs without   *)
(* interruption until it reaches an await that really suspends.  The       *)
(* awaits of a cycle that suspend are the health-check GET, the log-query  *)
(* POST and, in start(), asyncio.sleep.  Everything between two such       *)
(* awaits is one atomic action of the model.                               *)
(*                                                                         *)
(* Spec is the monitor with its tasks.  FnSpec applies single detector     *)
(* functions to batches, BaselineSpec runs the adaptive baseline on its    *)
(* file, LiveSpec is the scheduler loop without a bound on its length.     *)
(***************************************************************************)
EXTENDS Integers, Sequences, FiniteSets, TLC

\* ---------------------------------------------------------------- bounds
\* The clock counts seconds; datetime.utcnow() reads it.
MaxClock == 1
\* Number of cycles (_check_logs calls) started in one process lifetime.
MaxCycles == 2
\* settings.log_check_interval, in clock units.
log_check_interval == 1

\* ------------------------------------------------------------ data model
Severities == {"low", "medium", "high", "critical"}

\* severity_order of _create_incident.
severity_order(s) ==
    CASE s = "low" -> 1
      [] s = "medium" -> 2
      [] s = "high" -> 3
      [] s = "critical" -> 4

\* The fields pydantic declares for Incident; reading or assigning any
\* other attribute of an Incident raises (AttributeError / ValueError).
IncidentFields ==
    {"id", "title", "description", "severity", "status", "started_at",
     "detected_at", "resolved_at", "anomalies", "affected_services",
     "log_count", "error_count", "root_cause", "recommendations",
     "sample_logs", "metrics_snapshot"}

\* The names models/incident.py defines; "from models.incident import X"
\* raises ImportError for any other X.
IncidentModuleNames == {"LogEntry", "Anomaly", "Incident", "MonitoringState"}

Anom(type, sev) == [anomaly_type |-> type, severity |-> sev]

\* Log records, reduced to the two fields the cycle reads.
InfoLog == [level |-> "INFO", message |-> "request served"]
ErrorLog == [level |-> "ERROR", message |-> "db timeout"]
ErrorTextLog == [level |-> "INFO", message |-> "an error occurred"]
RefusedLog == [level |-> "ERROR", message |-> "connection refused"]

\* An error record whose message is longer than what a sample log keeps.
Pad50 == "0123456789012345678901234567890123456789012345678-"
LongMessage == "db timeout after " \o Pad50 \o Pad50 \o Pad50 \o Pad50 \o Pad50
LongErrorLog == [level |-> "ERROR", message |-> LongMessage]

\* The messages m with "error" in m.lower().
MessagesWithError == {"an error occurred"}

\* "ERROR" in log.get("level", "") or "error" in log.get("message", "").lower()
IsErrorLog(log) == log.level = "ERROR" \/ log.message \in MessagesWithError

\* What es_client.search_logs can hand to the cycle when the query succeeds:
\* no record, or records of every kind, more of them errors than an
\* incident samples.
Batches ==
    {<<>>,
     <<InfoLog, LongErrorLog, ErrorLog, InfoLog, ErrorTextLog, RefusedLog,
       ErrorLog, ErrorTextLog, LongErrorLog>>}

ErrorCount(logs) == Cardinality({i \in DOMAIN logs : IsErrorLog(logs[i])})


\* ------------------------------------------------------ detector outcomes
\* A detector call either raises or returns a list of anomalies.
Returned(anoms) == [raised |-> FALSE, anomalies |-> anoms]
Raised == [raised |-> TRUE, anomalies |-> <<>>]

\* adaptive_baseline.is_anomalous needs a selected baseline of >= 5 samples.
MinBaselineSamples == 5
\* TimeSeriesAnalyzer window_size (deque maxlen).
window_size == 12
\* AlertManager keeps the last 50 alert records.
AlertHistoryCap == 50

\* How the cycle's (error_count, log_volume) compare with the learned
\* baseline: both within the sensitivity, only the volume outside it,
\* |z_error| in (2, 3], or |z_error| > 3.
ZClasses == {"within", "volume_only", "error_gt2", "error_gt3"}

\* One cycle's inputs to the detection stack: the z-class of the batch and
\* what each detector would do on the batch if it were invoked.
Scenario(z, rule, ts, corr) == [z |-> z, rule |-> rule, ts |-> ts, corr |-> corr]

Scenarios ==
    { Scenario("within", Returned(<<>>), Returned(<<>>), Returned(<<>>)),
      Scenario("within",
               Returned(<<Anom("log_volume_spike", "medium")>>),
               Returned(<<Anom("oscillation", "medium")>>),
               Returned(<<Anom("time_based_error_pattern", "medium")>>)),
      Scenario("error_gt2",
               Returned(<<Anom("dominant_error_pattern", "low"),
                          Anom("error_spike", "critical")>>),
               Returned(<<>>), Returned(<<>>)),
      Scenario("within",
               Returned(<<>>),
               Returned(<<Anom("increasing_trend", "high")>>),
               Returned(<<Anom("endpoint_error_correlation", "critical")>>)),
      Scenario("volume_only", Raised, Returned(<<>>), Returned(<<>>)),
      Scenario("within",
               Returned(<<Anom("service_degradation", "high")>>),
               Raised, Returned(<<>>)),
      Scenario("error_gt3",
               Returned(<<Anom("error_spike", "high")>>),
               Returned(<<>>), Raised) }

\* What incident_analyzer.analyze_incident can return: None or a result.
RcaResult == [root_cause |-> "connection pool exhausted",
              immediate_actions |-> <<"restart db">>]
RcaResults == {<<>>, <<RcaResult>>}

\* HTTP status codes a sink can answer a POST with.
HttpAnswers == {200, 201, 500}


\* ---------------------------------------------------------- AlertManager
\* Reading incident.<field>: pydantic raises AttributeError for a name that
\* is not a declared field.
ReadRaises(field) == field \notin IncidentFields

\* _format_slack_message reads incident.rca_analysis (line 201).
format_slack_message_raises == ReadRaises("rca_analysis")

\* _format_webhook_payload reads incident.rca_analysis (line 269).
format_webhook_payload_raises == ReadRaises("rca_analysis")

\* response.status_code == 200
SlackAccepts(http) == http = 200

\* response.status_code in [200, 201, 202]
WebhookAccepts(http) == http \in {200, 201, 202}

\* _send_slack_alert: the whole body is inside try/except Exception, so a
\* formatter that raises makes it return False before any POST is made.
send_slack_alert(http) ==
    IF format_slack_message_raises
    THEN [sink |-> "slack", ok |-> FALSE, posted |-> FALSE, accepted |-> FALSE]
    ELSE [sink |-> "slack", ok |-> SlackAccepts(http), posted |-> TRUE,
          accepted |-> SlackAccepts(http)]

\* _send_webhook_alert, same shape.
send_webhook_alert(http) ==
    IF format_webhook_payload_raises
    THEN [sink |-> "webhook", ok |-> FALSE, posted |-> FALSE, accepted |-> FALSE]
    ELSE [sink |-> "webhook", ok |-> WebhookAccepts(http), posted |-> TRUE,
          accepted |-> WebhookAccepts(http)]

\* any(alerts_sent)
AnyTrue(results) == \E i \in DOMAIN results : results[i].ok

LastN(seq, n) ==
    IF Len(seq) > n THEN SubSeq(seq, Len(seq) - n + 1, Len(seq)) ELSE seq

\* _record_alert
record_alert(history, incident, success, now) ==
    LastN(Append(history, [incident_id |-> incident.id,
                           severity |-> incident.severity,
                           timestamp |-> now,
                           success |-> success]),
          AlertHistoryCap)

\* The record one call of send_incident_alert leaves for the properties.
NoAlert ==
    [called |-> FALSE, eligible |-> FALSE, returned |-> FALSE,
     tried |-> {}, posted |-> {}, accepted |-> {}, answers |-> <<0, 0>>]

\* send_incident_alert(incident) on alert manager `am`; slack_http and
\* hook_http are what the sinks would answer.  Gives the new alert manager
\* and the report of the call (kept for the properties: whether the
\* severity was eligible, what was returned, which sinks were tried,
\* posted to and accepted, and the answers the configured sinks had ready).
send_incident_alert(am, incident, slack_http, hook_http, now) ==
    IF incident.severity \notin am.alert_on_severities
    THEN [am |-> am, report |-> [NoAlert EXCEPT !.called = TRUE]]
    ELSE
      LET slack == IF am.slack_webhook_url
                   THEN <<send_slack_alert(slack_http)>>
                   ELSE <<>>
          hook == IF am.generic_webhook_url
                  THEN <<send_webhook_alert(hook_http)>>
                  ELSE <<>>
          alerts_sent == slack \o hook
          ok == AnyTrue(alerts_sent)
          sinks(P(_)) == {alerts_sent[i].sink :
                            i \in {j \in DOMAIN alerts_sent : P(alerts_sent[j])}}
          IsTried(r) == TRUE
          IsPosted(r) == r.posted
          IsAccepted(r) == r.accepted
      IN [am |-> [am EXCEPT
                    !.total_alerts_sent = IF ok THEN @ + 1 ELSE @,
                    !.failed_alerts = IF ok THEN @ ELSE @ + 1,
                    !.alert_history = record_alert(@, incident, ok, now)],
          report |-> [called |-> TRUE, eligible |-> TRUE, returned |-> ok,
                      tried |-> sinks(IsTried),
                      posted |-> sinks(IsPosted),
                      accepted |-> sinks(IsAccepted),
                      answers |-> <<IF am.slack_webhook_url
                                    THEN slack_http ELSE 0,
                                    IF am.generic_webhook_url
                                    THEN hook_http ELSE 0>>]]


\* ------------------------------------------------------ incident synthesis
\* Faulty variant: only critical anomalies open an incident.
IsCriticalOnly(a) == a.severity = "critical"

\* a.severity in ["critical", "high"]
IsHighOrCritical(a) == a.severity \in {"critical", "high"}

\* Faulty variant: the severity of the first anomaly instead of the largest.
FirstSeverity(anomalies) == anomalies[1].severity

\* max(anomalies, key=lambda a: severity_order[a.severity]).severity:
\* the severity of the first anomaly whose rank is the largest.
MaxSeverity(anomalies) ==
    LET top == CHOOSE i \in DOMAIN anomalies :
                 \A j \in DOMAIN anomalies :
                    severity_order(anomalies[j].severity)
                       <= severity_order(anomalies[i].severity)
    IN anomalies[top].severity

\* id=f"INC-{int(datetime.utcnow().timestamp())}"
IncidentId(now) == <<"INC", now>>

\* error_logs[:5] and message[:200]
MaxSampleLogs == 5
MaxSampleMessage == 200

\* Faulty variant: the text is kept whole.
KeepWhole(text, n) == text

\* text[:n]
Truncate(text, n) == IF Len(text) > n THEN SubSeq(text, 1, n) ELSE text

\* seq[:n]
Take(seq, n) == IF Len(seq) > n THEN SubSeq(seq, 1, n) ELSE seq

\* The error records of a batch, in batch order (lines 245-248).
error_logs(logs) == SelectSeq(logs, IsErrorLog)

\* LogEntry(...) of lines 289-296, reduced to level and message.
LogEntry(log) ==
    [level |-> log.level, message |-> Truncate(log.message, MaxSampleMessage)]

\* sample_log_entries of lines 287-296.
sample_log_entries(logs) ==
    LET first == Take(error_logs(logs), MaxSampleLogs)
    IN [i \in DOMAIN first |-> LogEntry(first[i])]

\* Incident(...) of lines 317-329, reduced to the fields the properties
\* read.  root_cause is None (<<>>) and recommendations [] by default;
\* rca_analysis holds the attribute of that name when one is ever set.
NewIncident(logs, anomalies, now) ==
    [id |-> IncidentId(now),
     severity |-> MaxSeverity(anomalies),
     anomalies |-> anomalies,
     log_count |-> Len(logs),
     error_count |-> ErrorCount(logs),
     sample_logs |-> sample_log_entries(logs),
     root_cause |-> <<>>,
     recommendations |-> <<>>,
     rca_analysis |-> <<>>]

\* Faulty variant: the block without its try/except, so the failed import leaves
\* _create_incident as an exception.
rca_step_unguarded(incident, rca_result) ==
    [incident |-> incident, calls |-> 0, ended |-> "import_error",
     raised |-> TRUE]

\* The try block of lines 343-364.  The two imports run first; the
\* analyzer is awaited only after them; the three assignments follow in
\* order, and assigning an undeclared field raises.  Every exception is
\* caught by "except Exception" and logged.
\* Gives the incident afterwards, the number of analyzer calls made and
\* how the block ended.
rca_step(incident, rca_result) ==
    IF "RootCauseAnalysis" \notin IncidentModuleNames
    THEN [incident |-> incident, calls |-> 0, ended |-> "import_error",
          raised |-> FALSE]
    ELSE IF rca_result = <<>>
    THEN [incident |-> incident, calls |-> 1, ended |-> "no_result",
          raised |-> FALSE]
    ELSE
      LET r == rca_result[1]
          assigned == [incident EXCEPT
                         !.root_cause = <<r.root_cause>>,
                         !.recommendations = r.immediate_actions]
      IN IF "rca_analysis" \in IncidentFields
         THEN [incident |-> [assigned EXCEPT !.rca_analysis = <<r>>],
               calls |-> 1, ended |-> "completed", raised |-> FALSE]
         ELSE [incident |-> assigned, calls |-> 1, ended |-> "assign_error",
               raised |-> FALSE]

\* The try block of lines 368-372 around send_incident_alert.
alert_step(am, incident, slack_http, hook_http, now) ==
    LET sent == send_incident_alert(am, incident, slack_http, hook_http, now)
    IN [am |-> sent.am, report |-> sent.report, raised |-> FALSE]


\* ------------------------------------------------- bookkeeping of a cycle
\* What one call of _check_logs has done so far; kept per task for the
\* properties, not program state.
IdleCycle ==
    [outcome |-> "idle", steps |-> <<>>, health |-> "none", search |-> "none",
     raised_in |-> "none", all_anomalies |-> <<>>, created |-> 0,
     stored |-> 0, rca_calls |-> 0, rca |-> "none", alert |-> NoAlert,
     logs |-> <<>>]

FreshCycle == [IdleCycle EXCEPT !.outcome = "running",
                                !.steps = <<"health_check">>]

Did(cy, step) == [cy EXCEPT !.steps = Append(@, step)]

\* The record of a cycle that has ended is kept for one step only.
Settle(c) ==
    [t \in DOMAIN c |-> IF c[t].outcome = "running" THEN c[t] ELSE IdleCycle]

Min(a, b) == IF a < b THEN a ELSE b

\* ------------------------------------------------------- _create_incident
\* Faulty variant: the incident is appended to the incident log as soon as
\* it is built, before the RCA and alert phases.
create_incident_store_first(W, logs, anomalies, now, rca_result, slack_http, hook_http) ==
    LET built == NewIncident(logs, anomalies, now)
        rca == rca_step(built, rca_result)
        al == alert_step(W.alert_manager, rca.incident, slack_http, hook_http, now)
        cy1 == Did(Did(Did(Did(Did(W.cy, "synthesize"), "store"),
                           "count_incident"), "rca"), "alert")
    IN [W |-> [W EXCEPT
                 !.alert_manager = al.am,
                 !.incidents = Append(@, rca.incident),
                 !.state.incidents_created = @ + 1,
                 !.cy = [cy1 EXCEPT !.created = 1, !.rca_calls = rca.calls,
                                    !.rca = rca.ended, !.alert = al.report,
                                    !.stored = @ + 1]],
        incident |-> rca.incident,
        raised |-> FALSE]

\* _create_incident(logs, anomalies), lines 237-378, applied to world W
\* (the fields state, incidents, alert_manager, cy).  Gives the new world
\* and whether the call raised.
create_incident(W, logs, anomalies, now, rca_result, slack_http, hook_http) ==
    LET built == NewIncident(logs, anomalies, now)
        rca == rca_step(built, rca_result)
        cy1 == [Did(Did(W.cy, "synthesize"), "rca") EXCEPT
                  !.created = 1, !.rca_calls = rca.calls, !.rca = rca.ended]
    IN IF rca.raised
       THEN [W |-> [W EXCEPT !.cy = cy1], raised |-> TRUE]
       ELSE
         LET al == alert_step(W.alert_manager, rca.incident,
                              slack_http, hook_http, now)
             cy2 == [Did(cy1, "alert") EXCEPT !.alert = al.report]
         IN IF al.raised
            THEN [W |-> [W EXCEPT !.cy = cy2, !.alert_manager = al.am],
                  raised |-> TRUE]
            ELSE [W |-> [W EXCEPT
                           !.alert_manager = al.am,
                           !.incidents = Append(@, rca.incident),
                           !.state.incidents_created = @ + 1,
                           !.cy = [Did(Did(cy2, "store"), "count_incident")
                                     EXCEPT !.stored = @ + 1]],
                  incident |-> rca.incident,
                  raised |-> FALSE]

\* ------------------------------------------------------------ _check_logs
\* self.check_count % 3 == 0 / % 2 == 0
RunsTimeSeries(cc) == cc % 3 = 0
RunsCorrelation(cc) == cc % 2 = 0

\* Lines 118-146: the adaptive_baseline_deviation anomaly.  is_anomalous is
\* False while the selected baseline has fewer than MinBaselineSamples.
baseline_anomalies(z, samples) ==
    IF samples >= MinBaselineSamples /\ z # "within"
    THEN <<Anom("adaptive_baseline_deviation",
                IF z = "error_gt3" THEN "critical" ELSE "high")>>
    ELSE <<>>

\* Lines 154-181: the detectors in call order, each as
\* <<name, outcome>>; a detector that is not due this cycle is not called.
DetectorCalls(cc, sc) ==
    <<[name |-> "rule", out |-> sc.rule]>>
    \o (IF RunsTimeSeries(cc) THEN <<[name |-> "ts", out |-> sc.ts]>> ELSE <<>>)
    \o (IF RunsCorrelation(cc) THEN <<[name |-> "corr", out |-> sc.corr]>> ELSE <<>>)

\* The position of the first detector call that raises, 0 when none does.
FirstRaise(calls) ==
    IF \E i \in DOMAIN calls : calls[i].out.raised
    THEN CHOOSE i \in DOMAIN calls :
           /\ calls[i].out.raised
           /\ \A j \in 1..(i - 1) : ~calls[j].out.raised
    ELSE 0

RECURSIVE Concat(_)
Concat(calls) ==
    IF calls = <<>> THEN <<>>
    ELSE calls[1].out.anomalies \o Concat(Tail(calls))

RECURSIVE DidAll(_, _)
DidAll(cy, calls) ==
    IF calls = <<>> THEN cy
    ELSE DidAll(Did(cy, calls[1].name), Tail(calls))

\* A detector's exception is handled where run_detectors says: nowhere in
\* _check_logs, so it leaves the cycle.  Gives the calls made, the
\* anomalies they returned and the detector that raised ("none").
run_detectors(cc, sc) ==
    LET calls == DetectorCalls(cc, sc)
        k == FirstRaise(calls)
    IN IF k = 0
       THEN [made |-> calls, anomalies |-> Concat(calls), raised_in |-> "none"]
       ELSE [made |-> SubSeq(calls, 1, k),
             anomalies |-> Concat(SubSeq(calls, 1, k - 1)),
             raised_in |-> calls[k].name]

\* _check_logs from line 90 on, once search_logs has returned `logs`:
\* everything up to the end of the call runs without suspending.
check_logs_after_search(W, logs, sc, cc, start, now, rca_result, slack_http, hook_http) ==
    LET W1 == [W EXCEPT !.state.logs_processed = @ + Len(logs),
                        !.cy = Did(@, "count_logs")]
    IN IF logs = <<>>
       THEN [W1 EXCEPT !.state.last_check = start, !.cy.outcome = "empty"]
       ELSE
         LET samples == W1.baseline_samples + 1
             base == baseline_anomalies(sc.z, samples)
             det == run_detectors(cc, sc)
             W2 == [W1 EXCEPT
                      !.baseline_samples = samples,
                      !.ts_points = Min(@ + 1, window_size),
                      !.cy = DidAll(Did(Did(Did(@, "baseline_update"),
                                            "baseline_query"), "ts_append"),
                                    det.made)]
         IN IF det.raised_in # "none"
            THEN [W2 EXCEPT !.cy.outcome = "raised",
                            !.cy.raised_in = det.raised_in]
            ELSE
              LET all_anomalies == base \o det.anomalies
                  critical_anomalies == SelectSeq(all_anomalies, IsHighOrCritical)
                  W3 == [W2 EXCEPT
                           !.state.anomalies_detected = @ + Len(all_anomalies),
                           !.cy = [Did(Did(@, "fuse"), "count_anomalies")
                                     EXCEPT !.all_anomalies = all_anomalies]]
                  ci == create_incident(W3, logs, critical_anomalies, now,
                                        rca_result, slack_http, hook_http)
                  W4 == IF critical_anomalies = <<>> THEN W3
                        ELSE IF ci.raised THEN ci.W
                        ELSE [ci.W EXCEPT
                                !.incidents = Append(@, ci.incident),
                                !.state.incidents_created = @ + 1,
                                !.cy = [Did(Did(@, "store"), "count_incident")
                                          EXCEPT !.stored = @ + 1]]
              IN IF critical_anomalies # <<>> /\ ci.raised
                 THEN [W4 EXCEPT !.cy.outcome = "raised",
                                 !.cy.raised_in = "create_incident"]
                 ELSE [W4 EXCEPT !.state.last_check = start,
                                 !.state.status = "healthy",
                                 !.cy = [Did(@, "update_state")
                                           EXCEPT !.outcome = "completed"]]


\* Faulty variant: the result of the health check is not looked at.
after_health_check_unchecked(W, es_healthy) == [W EXCEPT !.cy = Did(@, "search")]

\* Lines 71-76: the health check has returned es_healthy.
after_health_check(W, es_healthy) ==
    IF ~es_healthy
    THEN [W EXCEPT !.state.status = "degraded", !.cy.outcome = "unhealthy"]
    ELSE [W EXCEPT !.cy = Did(@, "search")]

\* ElasticsearchClient.search_logs: any exception of the request is caught
\* and turned into the empty list.
search_logs(response) == IF response.failed THEN <<>> ELSE response.hits

\* --------------------------------------------------------------- start()
\* "while self.running"
loop_continues(is_running) == is_running

\* Faulty variant: no try/except in the loop, an exception of the cycle ends start().
loop_after_cycle_unguarded(raised, st, cc) ==
    IF raised
    THEN [state |-> st, check_count |-> cc, next |-> "exited"]
    ELSE [state |-> st, check_count |-> cc + 1, next |-> "sleeping"]

\* Lines 45-53: what the loop does once _check_logs has returned or raised,
\* up to the sleep it then awaits.
loop_after_cycle(raised, st, cc) ==
    IF raised
    THEN [state |-> [st EXCEPT !.status = "error"], check_count |-> cc,
          next |-> "sleeping"]
    ELSE [state |-> st, check_count |-> cc + 1, next |-> "sleeping"]

\* Faulty variant: stop() sets the status but leaves the running flag.
stop_leaves_running(st) ==
    [running |-> TRUE, state |-> [st EXCEPT !.status = "stopped"]]

\* Faulty variant: stop() replaces the state by a fresh MonitoringState.
stop_with_fresh_state(st) ==
    [running |-> FALSE,
     state |-> [st EXCEPT !.status = "stopped", !.logs_processed = 0,
                          !.anomalies_detected = 0, !.incidents_created = 0]]

\* stop()
stop(st) == [running |-> FALSE, state |-> [st EXCEPT !.status = "stopped"]]

\* get_recent_incidents(limit): self.incidents[-limit:], which for limit 0
\* is the whole list.
get_recent_incidents(incs, limit) == IF limit = 0 THEN incs ELSE LastN(incs, limit)

\* ------------------------------------------------------ adaptive baseline
\* A score is the fraction num/den; comparisons with a decimal threshold
\* are done on integers.
Fraction(num, den) == [num |-> num, den |-> den]

\* Exact arithmetic on fractions num/den with den > 0, kept in lowest terms.
RECURSIVE Gcd(_, _)
Gcd(a, b) == IF b = 0 THEN a ELSE Gcd(b, a % b)

Abs(x) == IF x < 0 THEN -x ELSE x

Reduce(num, den) ==
    LET g == Gcd(Abs(num), den)
    IN Fraction(num \div g, den \div g)

Whole(x) == Fraction(x, 1)
Plus(p, q) == Reduce(p.num * q.den + q.num * p.den, p.den * q.den)
Minus(p, q) == Reduce(p.num * q.den - q.num * p.den, p.den * q.den)
Times(p, q) == Reduce(p.num * q.num, p.den * q.den)
Over(p, n) == Reduce(p.num, p.den * n)
Less(p, q) == p.num * q.den < q.num * p.den
Largest(p, q) == IF Less(p, q) THEN q ELSE p

\* One {'mean', 'std', 'samples'} entry.  The standard deviation is kept
\* by its square (std_sq = std ** 2), which is what the recurrence reads
\* back at lines 138 and 158.
Stats(mean, std_sq, samples) ==
    [mean |-> mean, std_sq |-> std_sq, samples |-> samples]

\* The minimum std of each metric (lines 146, 166), squared, and the std
\* given to a first sample (lines 142, 162), squared.
StdFloorSq == [error_rate |-> Fraction(1, 100), log_volume |-> Whole(1)]
FirstStdSq == [error_rate |-> Whole(0), log_volume |-> Whole(1)]

Metrics == {"error_rate", "log_volume"}

\* _update_baseline_stats for one metric: lines 130-148 (error_rate) and
\* 151-168 (log_volume).  max(new_std, floor) is taken on the squares.
update_metric(old, x, metric) ==
    LET n == old.samples + 1
        new_mean == Plus(old.mean, Over(Minus(Whole(x), old.mean), n))
        new_var == Over(Plus(Times(Whole(n - 1), old.std_sq),
                             Times(Minus(Whole(x), old.mean),
                                   Minus(Whole(x), new_mean))), n)
        new_std_sq == IF n > 1 THEN new_var ELSE FirstStdSq[metric]
    IN Stats(new_mean, Largest(new_std_sq, StdFloorSq[metric]), n)

update_baseline_stats(baseline, error_rate, log_volume) ==
    [error_rate |-> update_metric(baseline.error_rate, error_rate, "error_rate"),
     log_volume |-> update_metric(baseline.log_volume, log_volume, "log_volume")]

Hours == 0..23
Weekdays == 0..6

\* AdaptiveBaseline.__init__, lines 30-51.
EmptyBucket ==
    [error_rate |-> Stats(Whole(0), Whole(0), 0),
     log_volume |-> Stats(Whole(0), Whole(0), 0)]

FreshBaseline ==
    [hourly_baselines |-> [h \in Hours |-> EmptyBucket],
     daily_baselines |-> [d \in Weekdays |-> EmptyBucket],
     overall_baseline |->
        [error_rate |-> Stats(Whole(0), Whole(1), 0),
         log_volume |-> Stats(Whole(100), Whole(2500), 0)]]

\* The persisted file: absent, not JSON, or a JSON object with some of the
\* three sections; json.dump writes the integer keys as strings.
MissingFile == [kind |-> "missing"]
UnparsableFile == [kind |-> "unparsable"]
Sections == {"hourly_baselines", "daily_baselines", "overall_baseline"}

StrKeys(buckets) == [k \in {ToString(i) : i \in DOMAIN buckets} |->
                        buckets[CHOOSE i \in DOMAIN buckets : ToString(i) = k]]

\* {int(k): v for k, v in section.items()}; the keys written are hours or
\* weekdays.
IntKeys(section) ==
    [i \in {j \in Hours \cup Weekdays : ToString(j) \in DOMAIN section} |->
        section[ToString(i)]]

\* _save_baselines, lines 281-291.
saved_file(bl) ==
    [kind |-> "json", sections |-> Sections,
     hourly_baselines |-> StrKeys(bl.hourly_baselines),
     daily_baselines |-> StrKeys(bl.daily_baselines),
     overall_baseline |-> bl.overall_baseline]

\* Faulty variant: a load that reads the overall section first.
load_baselines_overall_first(bl, file) ==
    IF file.kind # "json" THEN bl
    ELSE IF "overall_baseline" \notin file.sections THEN bl
    ELSE LET b1 == [bl EXCEPT !.overall_baseline = file.overall_baseline]
         IN IF "hourly_baselines" \notin file.sections THEN b1
            ELSE LET b2 == [b1 EXCEPT !.hourly_baselines =
                                         IntKeys(file.hourly_baselines)]
                 IN IF "daily_baselines" \notin file.sections THEN b2
                    ELSE [b2 EXCEPT !.daily_baselines =
                                       IntKeys(file.daily_baselines)]

\* _load_baselines, lines 300-325: the sections are assigned one after the
\* other, and the KeyError of a section that is not there ends the load
\* where it is (except Exception, line 324).
load_baselines(bl, file) ==
    IF file.kind # "json" THEN bl
    ELSE IF "hourly_baselines" \notin file.sections THEN bl
    ELSE LET b1 == [bl EXCEPT !.hourly_baselines =
                                 IntKeys(file.hourly_baselines)]
         IN IF "daily_baselines" \notin file.sections THEN b1
            ELSE LET b2 == [b1 EXCEPT !.daily_baselines =
                                         IntKeys(file.daily_baselines)]
                 IN IF "overall_baseline" \notin file.sections THEN b2
                    ELSE [b2 EXCEPT !.overall_baseline = file.overall_baseline]

\* The samples between two saves (line 109).
SaveEvery == 10

\* AdaptiveBaseline.update, lines 85-110, on the baselines and the file.
update(bl, file, error_rate, log_volume, ts) ==
    LET b1 == [bl EXCEPT !.hourly_baselines[ts.hour] =
                  update_baseline_stats(@, error_rate, log_volume)]
        b2 == [b1 EXCEPT !.daily_baselines[ts.weekday] =
                  update_baseline_stats(@, error_rate, log_volume)]
        b3 == [b2 EXCEPT !.overall_baseline =
                  update_baseline_stats(@, error_rate, log_volume)]
    IN [baseline |-> b3,
        file |-> IF b3.overall_baseline.error_rate.samples % SaveEvery = 0
                 THEN saved_file(b3) ELSE file]

\* The samples a bucket needs to be the expected baseline (lines 186, 190).
MinBucketSamples == 10

\* Faulty variant: the weekday baseline before the hourly one.
get_expected_baseline_weekday_first(bl, ts) ==
    IF bl.daily_baselines[ts.weekday].error_rate.samples >= MinBucketSamples
    THEN [level |-> "weekday", baseline |-> bl.daily_baselines[ts.weekday]]
    ELSE IF bl.hourly_baselines[ts.hour].error_rate.samples >= MinBucketSamples
    THEN [level |-> "hourly", baseline |-> bl.hourly_baselines[ts.hour]]
    ELSE [level |-> "overall", baseline |-> bl.overall_baseline]

\* get_expected_baseline, lines 182-194; level tells which dict the
\* returned baseline is.
get_expected_baseline(bl, ts) ==
    IF bl.hourly_baselines[ts.hour].error_rate.samples >= MinBucketSamples
    THEN [level |-> "hourly", baseline |-> bl.hourly_baselines[ts.hour]]
    ELSE IF bl.daily_baselines[ts.weekday].error_rate.samples >= MinBucketSamples
    THEN [level |-> "weekday", baseline |-> bl.daily_baselines[ts.weekday]]
    ELSE [level |-> "overall", baseline |-> bl.overall_baseline]

\* abs(z) > sensitivity for z = (x - mean) / std if std > 0 else 0
\* (lines 224, 228, 231, 232), decided on the squares.
z_beyond(x, stats, sensitivity) ==
    /\ Less(Whole(0), stats.std_sq)
    /\ Less(Times(Whole(sensitivity * sensitivity), stats.std_sq),
            Times(Minus(Whole(x), stats.mean), Minus(Whole(x), stats.mean)))

NoDetails == [none |-> TRUE]

\* Faulty variant: is_anomalous that answers from any baseline with a
\* sample.
is_anomalous_from_first_sample(bl, error_rate, log_volume, ts, sensitivity) ==
    LET baseline == get_expected_baseline(bl, ts).baseline
        is_error_anomalous == z_beyond(error_rate, baseline.error_rate, sensitivity)
        is_volume_anomalous == z_beyond(log_volume, baseline.log_volume, sensitivity)
    IN IF baseline.error_rate.samples < 1
       THEN [anomalous |-> FALSE, details |-> NoDetails]
       ELSE IF is_error_anomalous \/ is_volume_anomalous
       THEN [anomalous |-> TRUE,
             details |-> [error_is_anomalous |-> is_error_anomalous,
                          volume_is_anomalous |-> is_volume_anomalous,
                          baseline_samples |-> baseline.error_rate.samples,
                          sensitivity |-> sensitivity]]
       ELSE [anomalous |-> FALSE, details |-> NoDetails]

\* is_anomalous, lines 215-263.
is_anomalous(bl, error_rate, log_volume, ts, sensitivity) ==
    LET baseline == get_expected_baseline(bl, ts).baseline
        is_error_anomalous == z_beyond(error_rate, baseline.error_rate, sensitivity)
        is_volume_anomalous == z_beyond(log_volume, baseline.log_volume, sensitivity)
    IN IF baseline.error_rate.samples < MinBaselineSamples
       THEN [anomalous |-> FALSE, details |-> NoDetails]
       ELSE IF is_error_anomalous \/ is_volume_anomalous
       THEN [anomalous |-> TRUE,
             details |-> [error_is_anomalous |-> is_error_anomalous,
                          volume_is_anomalous |-> is_volume_anomalous,
                          baseline_samples |-> baseline.error_rate.samples,
                          sensitivity |-> sensitivity]]
       ELSE [anomalous |-> FALSE, details |-> NoDetails]

\* ------------------------------------------------------------------ state
VARIABLES
    running,           \* LogMonitor.running
    state,             \* LogMonitor.state (MonitoringState)
    incidents,         \* LogMonitor.incidents
    check_count,       \* LogMonitor.check_count
    alert_manager,     \* the AlertManager singleton: counters, history, config
    baseline_samples,  \* adaptive_baseline.overall_baseline[...]['samples']
    ts_points,         \* len(ts_analyzer.error_rate_history)
    pc,                \* where each task is suspended
    check_start,       \* the local check_start of each task's cycle
    wake,              \* when the scheduler's sleep ends
    clock,             \* seconds since the process started
    es_closed,         \* es_client.close() has run (lifespan shutdown)
    cyc,               \* bookkeeping of each task's current or last cycle
    cycles,            \* number of cycles started so far
    fn_call,           \* one call of a function of the detection stack
    adaptive_baseline, \* the AdaptiveBaseline singleton: its three dicts
    baseline_file,     \* what is at AdaptiveBaseline.persistence_path
    baseline_call,     \* the last call made on the baseline, with its result
    baseline_run       \* updates fed, processes started, the time it is

vars == <<running, state, incidents, check_count, alert_manager,
          baseline_samples, ts_points, pc, check_start, wake, clock,
          es_closed, cyc, cycles, fn_call, adaptive_baseline, baseline_file,
          baseline_call, baseline_run>>

baseline_vars == <<adaptive_baseline, baseline_file, baseline_call,
                   baseline_run>>

\* What the monitor's own steps leave alone.
fn_vars == <<fn_call, baseline_vars>>

NoBaselineCall == [fn |-> "none", args |-> NoDetails, out |-> NoDetails]

\* The samples fed since the baseline was fresh, by their count, sums and
\* sums of squares; counted is false once a file has been loaded.
NothingFed ==
    [counted |-> TRUE, n |-> 0,
     sum |-> [m \in Metrics |-> 0], sum_sq |-> [m \in Metrics |-> 0]]

\* The baseline as the module is imported with no file at
\* persistence_path.
InitBaseline ==
    /\ adaptive_baseline = load_baselines(FreshBaseline, MissingFile)
    /\ baseline_file = MissingFile
    /\ baseline_call = NoBaselineCall
    /\ baseline_run = [updates |-> 0, restarts |-> 0, now |-> 1,
                       fed |-> NothingFed]

\* The scheduler task (monitor.start, created by lifespan) and the
\* background task of POST /api/analyze.
Tasks == {"sched", "manual"}

\* AlertManager.__init__ with the settings it can be given: which sink URLs
\* are set and the severities to alert on (default ["high", "critical"]).
AlertManagerInit(slack, hook, sevs) ==
    [alert_history |-> <<>>, total_alerts_sent |-> 0, failed_alerts |-> 0,
     slack_webhook_url |-> slack, generic_webhook_url |-> hook,
     alert_on_severities |-> sevs]

AlertManagers ==
    { AlertManagerInit(TRUE, TRUE, {"high", "critical"}),
      AlertManagerInit(TRUE, FALSE, {"critical"}),
      AlertManagerInit(FALSE, FALSE, {"high", "critical"}) }

\* No function is being exercised on its own.
NoCall == [fn |-> "none", logs |-> <<>>, out |-> <<>>, done |-> FALSE]

InitMonitor ==
    /\ running = FALSE
    /\ state = [last_check |-> 0, logs_processed |-> 0,
                anomalies_detected |-> 0, incidents_created |-> 0,
                status |-> "initializing"]
    /\ incidents = <<>>
    /\ check_count = 0
    /\ alert_manager \in AlertManagers
    \* a persisted baseline read by _load_baselines, one sample short of
    \* what is_anomalous asks for once the first cycle has added its own
    /\ baseline_samples = MinBaselineSamples - 2
    /\ ts_points = 0
    /\ pc = [t \in Tasks |-> IF t = "sched" THEN "created" ELSE "idle"]
    /\ check_start = [t \in Tasks |-> 0]
    /\ wake = 0
    /\ clock = 0
    /\ es_closed = FALSE
    /\ cyc = [t \in Tasks |-> IdleCycle]
    /\ cycles = 0

Init == InitMonitor /\ fn_call = NoCall /\ InitBaseline

World(t) ==
    [state |-> state, incidents |-> incidents, alert_manager |-> alert_manager,
     baseline_samples |-> baseline_samples, ts_points |-> ts_points,
     cy |-> cyc[t]]

\* Task t enters _check_logs: lines 63-72 up to the health-check await.
begin_cycle(t) ==
    /\ check_start' = [check_start EXCEPT ![t] = clock]
    /\ cyc' = [Settle(cyc) EXCEPT ![t] = FreshCycle]
    /\ pc' = [pc EXCEPT ![t] = "await_health"]
    /\ cycles' = cycles + 1

\* Task t's call of _check_logs has ended with world W (returned or raised):
\* the scheduler goes on in start(), a background task is over.
finish(t, W) ==
    LET raised == W.cy.outcome = "raised"
        loop == loop_after_cycle(raised, W.state, check_count)
    IN /\ state' = IF t = "sched" THEN loop.state ELSE W.state
       /\ check_count' = IF t = "sched" THEN loop.check_count ELSE check_count
       /\ pc' = [pc EXCEPT ![t] = IF t = "sched" THEN loop.next ELSE "idle"]
       /\ wake' = IF t = "sched" THEN clock + log_check_interval ELSE wake
       /\ incidents' = W.incidents
       /\ alert_manager' = W.alert_manager
       /\ baseline_samples' = W.baseline_samples
       /\ ts_points' = W.ts_points
       /\ cyc' = [Settle(cyc) EXCEPT ![t] = W.cy]
       /\ UNCHANGED <<running, check_start, clock, es_closed, cycles>>

\* ---------------------------------------------------------------- actions
\* lifespan startup: the task of monitor.start() runs up to its first await.
Start ==
    /\ pc["sched"] = "created"
    /\ UNCHANGED fn_vars
    /\ cycles < MaxCycles
    /\ running' = TRUE
    /\ state' = [state EXCEPT !.status = "healthy"]
    /\ begin_cycle("sched")
    /\ UNCHANGED <<incidents, check_count, alert_manager, baseline_samples,
                   ts_points, wake, clock, es_closed>>

\* es_client.health_check() returns to task t.  A closed client raises
\* inside health_check, which returns False.
HealthReturn(t) ==
    /\ pc[t] = "await_health"
    /\ UNCHANGED fn_vars
    /\ \E es_healthy \in (IF es_closed THEN {FALSE} ELSE BOOLEAN) :
         LET W == after_health_check(
                     [World(t) EXCEPT
                        !.cy.health = IF es_healthy THEN "ok" ELSE "failed"],
                     es_healthy)
         IN IF W.cy.outcome = "unhealthy"
            THEN finish(t, W)
            ELSE /\ pc' = [pc EXCEPT ![t] = "await_search"]
                 /\ cyc' = [Settle(cyc) EXCEPT ![t] = W.cy]
                 /\ state' = W.state
                 /\ UNCHANGED <<running, incidents, check_count, alert_manager,
                                baseline_samples, ts_points, check_start, wake,
                                clock, es_closed, cycles>>

\* What the analyzer can return where it is called: the call is reached
\* only when the imports before it succeed.
AnalyzerReturns ==
    IF "RootCauseAnalysis" \in IncidentModuleNames THEN RcaResults ELSE {<<>>}

\* What a sink can answer: only a configured sink is ever asked.
SinkAnswers(configured) == IF configured THEN HttpAnswers ELSE {500}

SearchResponses ==
    {[failed |-> TRUE, hits |-> <<>>]}
       \cup (IF es_closed THEN {}
             ELSE {[failed |-> FALSE, hits |-> b] : b \in Batches})

\* es_client.search_logs() returns to task t, and the cycle runs to its end.
SearchReturn(t) ==
    /\ pc[t] = "await_search"
    /\ UNCHANGED fn_vars
    /\ \E response \in SearchResponses :
         LET logs == search_logs(response)
             W == [World(t) EXCEPT
                     !.cy.search = IF response.failed THEN "failed" ELSE "ok",
                     !.cy.logs = logs]
             run(sc, rca_result, slack_http, hook_http) ==
                 check_logs_after_search(W, logs, sc, check_count,
                                         check_start[t], clock,
                                         rca_result, slack_http, hook_http)
         IN \E sc \in (IF logs = <<>> THEN {CHOOSE x \in Scenarios : TRUE}
                       ELSE Scenarios) :
              IF run(sc, <<>>, 500, 500).cy.created = 0
              THEN finish(t, run(sc, <<>>, 500, 500))
              ELSE \E rca_result \in AnalyzerReturns :
                   \E slack_http \in SinkAnswers(alert_manager.slack_webhook_url) :
                   \E hook_http \in SinkAnswers(alert_manager.generic_webhook_url) :
                      finish(t, run(sc, rca_result, slack_http, hook_http))

\* asyncio.sleep(interval) returns to the scheduler: the loop tests
\* self.running and either enters the next cycle or ends.
Wake ==
    /\ pc["sched"] = "sleeping"
    /\ UNCHANGED fn_vars
    /\ clock >= wake
    /\ loop_continues(running) => cycles < MaxCycles
    /\ IF loop_continues(running)
       THEN /\ begin_cycle("sched")
            /\ UNCHANGED <<running, state, incidents, check_count,
                           alert_manager, baseline_samples, ts_points, wake,
                           clock, es_closed>>
       ELSE /\ pc' = [pc EXCEPT !["sched"] = "exited"]
            /\ cyc' = Settle(cyc)
            /\ UNCHANGED <<running, state, incidents, check_count,
                           alert_manager, baseline_samples, ts_points,
                           check_start, wake, clock, es_closed, cycles>>

\* POST /api/analyze: trigger_analysis adds monitor._check_logs as a
\* background task, which runs up to its first await.
TriggerAnalysis ==
    /\ pc["sched"] # "created"
    /\ UNCHANGED fn_vars
    /\ ~es_closed
    /\ pc["manual"] = "idle"
    /\ cycles < MaxCycles
    /\ begin_cycle("manual")
    /\ UNCHANGED <<running, state, incidents, check_count, alert_manager,
                   baseline_samples, ts_points, wake, clock, es_closed>>

\* lifespan shutdown: monitor.stop(), monitoring_task.cancel(),
\* es_client.close().  stop() does not suspend, so the cancellation follows
\* it at once; the scheduler task gets CancelledError at the await it is
\* suspended in, which no "except Exception" catches.
Shutdown ==
    /\ pc["sched"] \in {"await_health", "await_search", "sleeping"}
    /\ UNCHANGED fn_vars
    /\ ~es_closed
    /\ running' = stop(state).running
    /\ state' = stop(state).state
    /\ pc' = [pc EXCEPT !["sched"] = "cancelled"]
    /\ cyc' = [Settle(cyc) EXCEPT !["sched"] =
                 IF @.outcome = "running" THEN [@ EXCEPT !.outcome = "cancelled"]
                 ELSE @]
    /\ es_closed' = TRUE
    /\ UNCHANGED <<incidents, check_count, alert_manager, baseline_samples,
                   ts_points, check_start, wake, clock, cycles>>

\* A second passes.
Tick ==
    /\ clock < MaxClock
    /\ UNCHANGED fn_vars
    /\ clock' = clock + 1
    /\ cyc' = Settle(cyc)
    /\ UNCHANGED <<running, state, incidents, check_count, alert_manager,
                   baseline_samples, ts_points, pc, check_start, wake,
                   es_closed, cycles>>

Next ==
    \/ Start
    \/ \E t \in Tasks : HealthReturn(t)
    \/ \E t \in Tasks : SearchReturn(t)
    \/ Wake
    \/ TriggerAnalysis
    \/ Shutdown
    \/ Tick

Spec == Init /\ [][Next]_vars


\* ------------------------------------------- detectors as pure functions
\* Whether text w occurs in text.
HasSubstring(text, w) ==
    \E i \in 1..(Len(text) - Len(w) + 1) : SubSeq(text, i, i + Len(w) - 1) = w

\* str.lower() on the messages of the batches below.
Lower(text) ==
    CASE text = "DB timeout" -> "db timeout"
      [] text = "Payment ERROR" -> "payment error"
      [] text = "GET /api/x 500" -> "get /api/x 500"
      [] text = "GET /api/x 200" -> "get /api/x 200"
      [] text = "POST /api/y failed" -> "post /api/y failed"
      [] OTHER -> text

\* str.split() of a text whose words are separated by single spaces.
RECURSIVE SplitFrom(_, _, _)
SplitFrom(text, from, at) ==
    IF at > Len(text)
    THEN IF from <= Len(text) THEN <<SubSeq(text, from, Len(text))>> ELSE <<>>
    ELSE IF SubSeq(text, at, at) = " "
    THEN (IF from < at THEN <<SubSeq(text, from, at - 1)>> ELSE <<>>)
         \o SplitFrom(text, at + 1, at + 1)
    ELSE SplitFrom(text, from, at + 1)

Split(text) == SplitFrom(text, 1, 1)

\* [x] * n
Repeat(x, n) == [i \in 1..n |-> x]

\* AnomalyDetector._calculate_severity
calculate_severity(score) ==
    IF 10 * score.num >= 8 * score.den THEN "critical"
    ELSE IF 10 * score.num >= 6 * score.den THEN "high"
    ELSE IF 10 * score.num >= 4 * score.den THEN "medium"
    ELSE "low"

\* "ERROR" in message or "error" in message.lower()
MessageSaysError(message) ==
    HasSubstring(message, "ERROR") \/ HasSubstring(Lower(message), "error")

\* AnomalyDetector.detect_error_patterns.  The error messages are selected
\* by the message text alone.  A message with more than half of them is
\* the most common one, so it is among most_common(5), and there is at
\* most one such message: the result has at most one anomaly.
detect_error_patterns(logs) ==
    LET messages == [i \in DOMAIN logs |-> logs[i].message]
        error_messages == SelectSeq(messages, MessageSaysError)
        total_errors == Len(error_messages)
        Count(m) == Cardinality({i \in DOMAIN error_messages :
                                   error_messages[i] = m})
        dominant == {error_messages[i] : i \in
                        {j \in DOMAIN error_messages :
                           /\ 100 * Count(error_messages[j]) > 50 * total_errors
                           /\ Count(error_messages[j]) > 5}}
    IN IF dominant = {} THEN <<>>
       ELSE LET m == CHOOSE x \in dominant : TRUE
                score == Fraction(Count(m), total_errors)
            IN <<[anomaly_type |-> "dominant_error_pattern",
                  severity |-> calculate_severity(score),
                  score |-> score,
                  error_message |-> Truncate(m, 100),
                  count |-> Count(m),
                  total_errors |-> total_errors]>>

\* The words after which the endpoint is looked for.
HttpVerbs == {"GET", "POST", "PUT", "DELETE", "PATCH"}

\* Lines 31-46 of correlate_error_with_endpoint: the word after the first
\* verb that has a word after it, else the record's endpoint field, else
\* "unknown".
endpoint_of(log) ==
    LET parts == Split(log.message)
        hits == {i \in DOMAIN parts : parts[i] \in HttpVerbs /\ i + 1 <= Len(parts)}
        fallback == IF "endpoint" \in DOMAIN log THEN log.endpoint ELSE "unknown"
    IN IF (HasSubstring(log.message, "GET") \/ HasSubstring(log.message, "POST"))
          /\ hits # {}
       THEN parts[(CHOOSE i \in hits : \A j \in hits : i <= j) + 1]
       ELSE fallback

\* 'ERROR' in level or 'error' in message.lower()
IsErrorRecord(log) ==
    HasSubstring(log.level, "ERROR") \/ HasSubstring(Lower(log.message), "error")

\* CorrelationEngine.correlate_error_with_endpoint: <<>> for None, else the
\* anomaly of the endpoint with the highest error rate; among equal rates
\* the stable sort keeps the endpoint whose first error came first.
correlate_error_with_endpoint(logs) ==
    LET Total(e) == Cardinality({i \in DOMAIN logs : endpoint_of(logs[i]) = e})
        Errors(e) == Cardinality({i \in DOMAIN logs :
                                    /\ endpoint_of(logs[i]) = e
                                    /\ IsErrorRecord(logs[i])})
        FirstError(e) == CHOOSE i \in DOMAIN logs :
                            /\ endpoint_of(logs[i]) = e
                            /\ IsErrorRecord(logs[i])
                            /\ \A j \in 1..(i - 1) :
                                  ~(endpoint_of(logs[j]) = e /\ IsErrorRecord(logs[j]))
        with_errors == {endpoint_of(logs[i]) :
                          i \in {j \in DOMAIN logs : IsErrorRecord(logs[j])}}
        problematic == {e \in with_errors :
                          Total(e) >= 5 /\ 10 * Errors(e) > 3 * Total(e)}
        top == CHOOSE e \in problematic :
                  \A f \in problematic \ {e} :
                     \/ Errors(e) * Total(f) > Errors(f) * Total(e)
                     \/ /\ Errors(e) * Total(f) = Errors(f) * Total(e)
                        /\ FirstError(e) < FirstError(f)
        score == Fraction(Errors(top), Total(top))
    IN IF problematic = {} THEN <<>>
       ELSE <<[anomaly_type |-> "endpoint_error_correlation",
               severity |-> IF 10 * score.num > 8 * score.den
                            THEN "critical" ELSE "high",
               score |-> score,
               endpoint |-> top,
               error_count |-> Errors(top),
               total_requests |-> Total(top),
               error_rate |-> score]>>

\* The error events of correlate_error_cascade, lines 203-222: the records
\* that are errors by level or by message and carry a timestamp, with the
\* first 100 characters of the message.  A timestamp is the datetime that
\* fromisoformat gives, in seconds.
CascadeMessageLen == 100

error_events(logs) ==
    LET IsEvent(log) == IsErrorRecord(log) /\ "timestamp" \in DOMAIN log
        picked == SelectSeq(logs, IsEvent)
    IN [i \in DOMAIN picked |->
          [timestamp |-> picked[i].timestamp,
           message |-> Truncate(picked[i].message, CascadeMessageLen)]]

\* error_events.sort(key=lambda x: x['timestamp']): a stable sort.
sort_by_timestamp(events) ==
    LET Rank(i) == Cardinality({j \in DOMAIN events :
                      \/ events[j].timestamp < events[i].timestamp
                      \/ (events[j].timestamp = events[i].timestamp /\ j < i)})
    IN [r \in DOMAIN events |->
          events[CHOOSE i \in DOMAIN events : Rank(i) = r - 1]]

\* The events of a cascade window and the seconds they must fit in
\* (lines 233-240), and the distinct messages asked of them (line 246).
CascadeWindow == 5
CascadeSeconds == 30
CascadeTypes == 3

\* CorrelationEngine.correlate_error_cascade: <<>> for None, else the
\* anomaly of the first cascade window.
correlate_error_cascade(logs) ==
    LET events == sort_by_timestamp(error_events(logs))
        Unique(i) == Cardinality({events[j].message :
                                    j \in i..(i + CascadeWindow - 1)})
        Duration(i) == events[i + CascadeWindow - 1].timestamp
                          - events[i].timestamp
        cascade_windows ==
            {i \in 1..(Len(events) - (CascadeWindow - 1)) :
                Duration(i) <= CascadeSeconds /\ Unique(i) >= CascadeTypes}
        first == CHOOSE i \in cascade_windows :
                    \A j \in cascade_windows : i <= j
    IN IF Len(logs) < 10 THEN <<>>
       ELSE IF Len(events) < CascadeWindow THEN <<>>
       ELSE IF cascade_windows = {} THEN <<>>
       ELSE <<[anomaly_type |-> "error_cascade",
               severity |-> "high",
               score |-> Fraction(Unique(first), 5),
               duration_seconds |-> Duration(first),
               error_count |-> CascadeWindow,
               unique_error_types |-> Unique(first),
               cascade_count |-> Cardinality(cascade_windows)]>>

\* ------------------------------------------------ batches for the functions
DbTimeoutLog == [level |-> "ERROR", message |-> "DB timeout"]
PaymentLog == [level |-> "ERROR", message |-> "Payment ERROR"]
GetFailedLog == [level |-> "ERROR", message |-> "GET /api/x 500"]
GetServedLog == [level |-> "INFO", message |-> "GET /api/x 200"]
PostFailedLog == [level |-> "ERROR", message |-> "POST /api/y failed"]

\* Copies of one message in a batch, of other error records, of requests
\* to one endpoint.
MaxSame == 15
MaxOthers == 7
MaxRequests == 8

PatternBatches ==
    {Repeat(DbTimeoutLog, k) \o Repeat(PaymentLog, p) \o Repeat(RefusedLog, r)
        \o Repeat(InfoLog, 2) :
        k \in 0..MaxSame, p \in 0..MaxOthers, r \in {0, 5}}

EndpointBatches ==
    {Repeat(GetFailedLog, e) \o Repeat(GetServedLog, s) \o Repeat(PostFailedLog, y)
        \o Repeat(InfoLog, u) :
        e \in 0..MaxRequests, s \in 0..(MaxRequests \div 2), y \in {0, 6},
        u \in {0, 10}}

\* Batches for correlate_error_cascade: error events with messages drawn
\* from three kinds, a fixed number of seconds apart, listed in time order
\* or in reverse, followed by records that are no errors; and the five
\* events within 10 seconds with four distinct messages.
MaxEvents == 6
CascadeLogs == <<DbTimeoutLog, GetFailedLog, RefusedLog>>
EventGaps == {2, 7, 8}
PaddingSizes == {0, 5}

Stamped(log, seconds) ==
    [level |-> log.level, message |-> log.message, timestamp |-> seconds]

Reversed(seq) == [i \in DOMAIN seq |-> seq[Len(seq) + 1 - i]]

CascadeExample ==
    <<Stamped(DbTimeoutLog, 0), Stamped(GetFailedLog, 2),
      Stamped(RefusedLog, 4), Stamped(PostFailedLog, 6),
      Stamped(DbTimeoutLog, 8)>>

CascadeBatches ==
    LET Events(kinds, gap) == [i \in DOMAIN kinds |->
                                 Stamped(CascadeLogs[kinds[i]], gap * (i - 1))]
        InOrder == {Events(kinds, gap) :
                      kinds \in UNION {[1..n -> DOMAIN CascadeLogs] :
                                         n \in CascadeWindow..MaxEvents},
                      gap \in EventGaps}
        Listed == InOrder \cup {Reversed(b) : b \in InOrder}
                     \cup {CascadeExample}
    IN {b \o Repeat(InfoLog, u) : b \in Listed, u \in PaddingSizes}

monitor_vars == <<running, state, incidents, check_count, alert_manager,
                  baseline_samples, ts_points, pc, check_start, wake, clock,
                  es_closed, cyc, cycles>>

FnInit ==
    /\ InitMonitor
    /\ InitBaseline
    /\ fn_call \in
         {[fn |-> "detect_error_patterns", logs |-> b, out |-> <<>>,
           done |-> FALSE] : b \in PatternBatches}
         \cup {[fn |-> "correlate_error_with_endpoint", logs |-> b,
                out |-> <<>>, done |-> FALSE] : b \in EndpointBatches}
         \cup {[fn |-> "correlate_error_cascade", logs |-> b,
                out |-> <<>>, done |-> FALSE] : b \in CascadeBatches}

\* detector.detect_error_patterns(logs) is called and returns.
DetectErrorPatterns ==
    /\ fn_call.fn = "detect_error_patterns"
    /\ ~fn_call.done
    /\ fn_call' = [fn_call EXCEPT !.out = detect_error_patterns(fn_call.logs),
                                  !.done = TRUE]
    /\ UNCHANGED <<monitor_vars, baseline_vars>>

\* correlation_engine.correlate_error_with_endpoint(logs) is called and
\* returns.
CorrelateErrorWithEndpoint ==
    /\ fn_call.fn = "correlate_error_with_endpoint"
    /\ ~fn_call.done
    /\ fn_call' = [fn_call EXCEPT
                     !.out = correlate_error_with_endpoint(fn_call.logs),
                     !.done = TRUE]
    /\ UNCHANGED <<monitor_vars, baseline_vars>>

\* correlation_engine.correlate_error_cascade(logs) is called and returns.
CorrelateErrorCascade ==
    /\ fn_call.fn = "correlate_error_cascade"
    /\ ~fn_call.done
    /\ fn_call' = [fn_call EXCEPT
                     !.out = correlate_error_cascade(fn_call.logs),
                     !.done = TRUE]
    /\ UNCHANGED <<monitor_vars, baseline_vars>>

FnNext ==
    DetectErrorPatterns \/ CorrelateErrorWithEndpoint \/ CorrelateErrorCascade

FnSpec == FnInit /\ [][FnNext]_vars

\* ------------------------------------------- the adaptive baseline alone
\* Updates fed to the baseline by the first process, processes started
\* after it on its file, and updates fed by each of these.
MaxUpdates == 11
MaxRestarts == 1
MaxUpdatesAfterRestart == 1

Timestamp(hour, weekday) == [hour |-> hour, weekday |-> weekday]

\* The measurements of a cycle, update(error_count, log_volume, now), as
\* the clock goes on: a quiet hour, a noisy hour of the same weekday, and
\* the same hour of another weekday.
UpdateInputs ==
    <<[error_rate |-> 0, log_volume |-> 100, ts |-> Timestamp(3, 0)],
      [error_rate |-> 2, log_volume |-> 104, ts |-> Timestamp(4, 0)],
      [error_rate |-> 0, log_volume |-> 104, ts |-> Timestamp(4, 1)]>>

Timestamps == {UpdateInputs[i].ts : i \in DOMAIN UpdateInputs}
\* The measurements is_anomalous is asked about.
Queries ==
    {[error_rate |-> 0, log_volume |-> 100],
     [error_rate |-> 3, log_volume |-> 100],
     [error_rate |-> 1, log_volume |-> 110]}

\* sensitivity: float = 2.0
DefaultSensitivity == 2

\* What a starting process can find at persistence_path: the file as it
\* was left, no file, a file that is not JSON, or the JSON object without
\* some of its sections.
FileViews(file) ==
    {file, MissingFile, UnparsableFile}
    \cup (IF file.kind = "json"
          THEN {[file EXCEPT !.sections = s] : s \in SUBSET file.sections}
          ELSE {})

\* adaptive_baseline.update(error_rate, log_volume, timestamp)
Update ==
    /\ baseline_run.updates < (IF baseline_run.restarts = 0 THEN MaxUpdates
                                ELSE MaxUpdatesAfterRestart)
    /\ \E i \in DOMAIN UpdateInputs :
         LET in == UpdateInputs[i]
             r == update(adaptive_baseline, baseline_file, in.error_rate,
                         in.log_volume, in.ts)
         IN /\ i >= baseline_run.now
            /\ adaptive_baseline' = r.baseline
            /\ baseline_file' = r.file
            /\ baseline_call' = [fn |-> "update", args |-> in,
                                 out |-> NoDetails]
            /\ baseline_run' =
                 [baseline_run EXCEPT
                    !.updates = @ + 1,
                    !.now = i,
                    !.fed.n = @ + 1,
                    !.fed.sum = [m \in Metrics |-> @[m] + in[m]],
                    !.fed.sum_sq = [m \in Metrics |-> @[m] + in[m] * in[m]]]
    /\ UNCHANGED <<monitor_vars, fn_call>>

\* adaptive_baseline.get_expected_baseline(timestamp)
GetExpectedBaseline ==
    /\ \E ts \in Timestamps :
         baseline_call' = [fn |-> "get_expected_baseline",
                           args |-> [ts |-> ts],
                           out |-> get_expected_baseline(adaptive_baseline, ts)]
    /\ UNCHANGED <<monitor_vars, fn_call, adaptive_baseline, baseline_file,
                   baseline_run>>

\* adaptive_baseline.is_anomalous(error_rate, log_volume, timestamp)
IsAnomalous ==
    /\ \E q \in Queries, ts \in Timestamps :
         baseline_call' =
            [fn |-> "is_anomalous",
             args |-> [error_rate |-> q.error_rate, log_volume |-> q.log_volume,
                       ts |-> ts, sensitivity |-> DefaultSensitivity],
             out |-> is_anomalous(adaptive_baseline, q.error_rate,
                                  q.log_volume, ts, DefaultSensitivity)]
    /\ UNCHANGED <<monitor_vars, fn_call, adaptive_baseline, baseline_file,
                   baseline_run>>

\* The process starts again: AdaptiveBaseline.__init__ builds the fresh
\* baselines and calls _load_baselines on what is at persistence_path.
Restart ==
    /\ baseline_run.restarts < MaxRestarts
    /\ \E file \in FileViews(baseline_file) :
         /\ adaptive_baseline' = load_baselines(FreshBaseline, file)
         /\ baseline_file' = file
         /\ baseline_call' = [fn |-> "_load_baselines",
                              args |-> [file |-> file],
                              out |-> NoDetails]
         /\ baseline_run' =
              [baseline_run EXCEPT
                 !.restarts = @ + 1,
                 !.updates = 0,
                 !.fed = IF load_baselines(FreshBaseline, file) = FreshBaseline
                         THEN NothingFed
                         ELSE [NothingFed EXCEPT !.counted = FALSE]]
    /\ UNCHANGED <<monitor_vars, fn_call>>

BaselineNext == Update \/ GetExpectedBaseline \/ IsAnomalous \/ Restart

\* The monitor stands by with both sinks configured.
BaselineInit ==
    /\ Init
    /\ alert_manager = AlertManagerInit(TRUE, TRUE, {"high", "critical"})

BaselineSpec == BaselineInit /\ [][BaselineNext]_vars

\* ------------------------------------------------- the scheduler for ever
\* The loop of start() with no bound on its iterations.  The detectors due
\* in a cycle depend on check_count % 3 and check_count % 2 alone (lines
\* 159, 172), so check_count and the number of cycles are kept modulo 6
\* and the counters, the incident log and the clock are left out.
CheckCountPeriod == 6

\* lifespan startup: start() sets running and the status, then loops.
LiveStart ==
    /\ pc["sched"] = "created"
    /\ running' = TRUE
    /\ state' = [state EXCEPT !.status = "healthy"]
    /\ pc' = [pc EXCEPT !["sched"] = "sleeping"]
    /\ UNCHANGED <<incidents, check_count, alert_manager, baseline_samples,
                   ts_points, check_start, wake, clock, es_closed, cyc,
                   cycles, fn_vars>>

\* One iteration of the loop, lines 44-53: _check_logs with what the
\* facade answers, the count of the check, and the sleep.
LiveCycle ==
    /\ pc["sched"] = "sleeping"
    /\ loop_continues(running)
    /\ \E es_healthy \in BOOLEAN, response \in SearchResponses,
          sc \in Scenarios :
         LET logs == search_logs(response)
             W0 == [World("sched") EXCEPT
                      !.cy = [FreshCycle EXCEPT
                                !.health = IF es_healthy THEN "ok"
                                           ELSE "failed"]]
             W1 == after_health_check(W0, es_healthy)
             W2 == [W1 EXCEPT
                      !.cy.search = IF response.failed THEN "failed" ELSE "ok",
                      !.cy.logs = logs]
             W3 == IF W1.cy.outcome = "unhealthy" THEN W1
                   ELSE check_logs_after_search(W2, logs, sc, check_count,
                                                clock, clock, <<>>, 500, 500)
             loop == loop_after_cycle(W3.cy.outcome = "raised", W3.state,
                                      check_count)
         IN /\ check_count' = loop.check_count % CheckCountPeriod
            /\ cyc' = [cyc EXCEPT !["sched"] = W3.cy]
    /\ cycles' = (cycles + 1) % CheckCountPeriod
    /\ UNCHANGED <<running, state, incidents, alert_manager, baseline_samples,
                   ts_points, pc, check_start, wake, clock, es_closed,
                   fn_vars>>

LiveNext == LiveStart \/ LiveCycle

\* The loop never stops by itself: every sleep ends (line 48, 53).
LiveSpec == Init /\ [][LiveNext]_vars /\ WF_vars(LiveNext)

\* ================================================================ claims
Ended == {"unhealthy", "empty", "raised", "completed"}

HasSeverity(anomalies, sevs) ==
    \E i \in DOMAIN anomalies : anomalies[i].severity \in sevs

C2_CyclesNeverOverlap ==
    Cardinality({t \in Tasks : pc[t] \in {"await_health", "await_search"}}) <= 1

\* C3: the severity of an incident is the largest severity among the
\* anomalies it carries.
C3_SeverityIsMaximum ==
    \A i \in DOMAIN incidents :
       LET inc == incidents[i]
       IN /\ inc.anomalies # <<>>
          /\ \E k \in DOMAIN inc.anomalies :
                inc.anomalies[k].severity = inc.severity
          /\ \A k \in DOMAIN inc.anomalies :
                severity_order(inc.anomalies[k].severity)
                   <= severity_order(inc.severity)

\* An incident whose first anomaly is less severe than a later one.
C3_Witness ==
    \E i \in DOMAIN incidents :
       /\ Len(incidents[i].anomalies) >= 2
       /\ severity_order(incidents[i].anomalies[1].severity)
             < severity_order(incidents[i].severity)

\* C4: when a cycle of the scheduler raises, the scheduler sets the status
\* to "error" and sleeps one full interval; it leaves that sleep only after
\* the interval has elapsed and then enters another cycle.  The loop is
\* left only once the monitor has been stopped, never by an exception.
C4_ExceptionBackoff ==
    /\ [][(pc["sched"] = "await_search" /\ cyc'["sched"].outcome = "raised")
            => /\ state'.status = "error"
               /\ pc'["sched"] = "sleeping"
               /\ wake' = clock + log_check_interval
               /\ running' = running
               /\ check_count' = check_count]_vars
    /\ [][(pc["sched"] = "sleeping" /\ pc'["sched"] # "sleeping")
            => \/ /\ clock >= wake
                  /\ running
                  /\ pc'["sched"] = "await_health"
                  /\ cyc'["sched"].outcome = "running"
               \/ /\ ~running'
                  /\ pc'["sched"] \in {"cancelled", "exited"}]_vars
    /\ [][pc'["sched"] \in {"cancelled", "exited"} => ~running']_vars

\* The scheduler is in a new cycle while the status still says "error".
C4_Witness ==
    /\ running
    /\ pc["sched"] = "await_health"
    /\ state.status = "error"
    /\ clock >= log_check_interval

\* C5: a cycle whose health check fails sets the status to "degraded" and
\* returns at once: no log query, no counter, baseline, time-series point,
\* incident or alert changes.
C5_UnhealthySkips ==
    [][\A t \in Tasks :
         (pc[t] = "await_health" /\ cyc'[t].health = "failed")
            => /\ cyc'[t].outcome = "unhealthy"
               /\ cyc'[t].steps = <<"health_check">>
               /\ pc'[t] # "await_search"
               /\ state' = [state EXCEPT !.status = "degraded"]
               /\ incidents' = incidents
               /\ alert_manager' = alert_manager
               /\ baseline_samples' = baseline_samples
               /\ ts_points' = ts_points]_vars

\* A cycle has ended on a failed health check.
C5_Witness ==
    \E t \in Tasks :
       /\ cyc[t].outcome = "unhealthy"
       /\ cyc[t].health = "failed"
       /\ state.status = "degraded"

\* C6: a cycle of the scheduler whose log query fails sets the status to
\* "degraded" and is skipped.
C6_FailedQueryDegrades ==
    LET c == cyc["sched"]
    IN (c.search = "failed" /\ c.outcome \in Ended)
          => /\ state.status = "degraded"
             /\ c.created = 0

\* C7: a detector that raises is contained: the cycle goes on with the
\* anomalies of the other detectors and completes.
C7_DetectorFailureContained ==
    \A t \in Tasks :
       cyc[t].raised_in \in {"rule", "ts", "corr"}
          => /\ cyc[t].outcome = "completed"
             /\ "fuse" \in {cyc[t].steps[i] : i \in DOMAIN cyc[t].steps}

\* C8: when the RCA step fails, or the alert fan-out reports failure, while
\* an incident is synthesized, the incident is still stored in the incident
\* log and counted, the cycle completes with status "healthy", and the
\* alert fan-out has been attempted after the RCA step.
C8_RcaAndAlertFailuresSwallowed ==
    [][\A t \in Tasks :
         (/\ pc[t] = "await_search"
          /\ cyc'[t].created = 1
          /\ \/ cyc'[t].rca # "completed"
             \/ (cyc'[t].alert.eligible /\ ~cyc'[t].alert.returned))
            => /\ cyc'[t].outcome = "completed"
               /\ Len(incidents') > Len(incidents)
               /\ incidents'[Len(incidents')].id = IncidentId(clock)
               /\ state'.incidents_created > state.incidents_created
               /\ state'.status = "healthy"
               /\ cyc'[t].alert.called]_vars

\* A completed cycle that stored its incident although the RCA step ended
\* on an exception and the alert fan-out reported failure.
C8_Witness ==
    \E t \in Tasks :
       /\ cyc[t].outcome = "completed"
       /\ cyc[t].created = 1
       /\ cyc[t].rca = "import_error"
       /\ cyc[t].alert.eligible
       /\ ~cyc[t].alert.returned
       /\ incidents # <<>>
       /\ state.status = "healthy"

\* C9: for every incident created the RCA analyzer is invoked exactly once,
\* and when it returns a result the stored incident carries the result's
\* root cause, its immediate actions as recommendations, and the
\* structured rca_analysis.
C9_AnalyzerInvokedOnce ==
    \A t \in Tasks :
       (cyc[t].created = 1 /\ cyc[t].outcome \in Ended)
          => /\ cyc[t].rca_calls = 1
             /\ cyc[t].rca \in {"completed", "no_result"}
             /\ cyc[t].rca = "completed"
                   => LET inc == incidents[Len(incidents)]
                      IN /\ inc.root_cause # <<>>
                         /\ inc.recommendations # <<>>
                         /\ inc.rca_analysis # <<>>

\* C10: for an incident of an alerting severity, send_incident_alert
\* returns true, increments total_alerts_sent and records success exactly
\* when a configured sink answers the POST with a status it accepts (chat
\* sink 200; generic webhook 200, 201 or 202); otherwise it returns false
\* and increments failed_alerts.  The generic webhook is tried whatever the
\* chat sink did.
C10_AlertedIffSinkAccepted ==
    [][\A t \in Tasks :
         (pc[t] = "await_search" /\ cyc'[t].alert.eligible)
            => LET r == cyc'[t].alert
                   am == alert_manager
                   chat_accepts == am.slack_webhook_url /\ r.answers[1] = 200
                   hook_accepts == /\ am.generic_webhook_url
                                   /\ r.answers[2] \in {200, 201, 202}
                   history == alert_manager'.alert_history
               IN /\ r.returned <=> (chat_accepts \/ hook_accepts)
                  /\ r.returned
                       => /\ alert_manager'.total_alerts_sent
                                = am.total_alerts_sent + 1
                          /\ alert_manager'.failed_alerts = am.failed_alerts
                  /\ ~r.returned
                       => /\ alert_manager'.failed_alerts = am.failed_alerts + 1
                          /\ alert_manager'.total_alerts_sent
                                = am.total_alerts_sent
                  /\ history # <<>>
                  /\ history[Len(history)].success = r.returned
                  /\ am.generic_webhook_url => "webhook" \in r.tried]_vars

\* C11: with neither sink configured, send_incident_alert for an incident
\* of an alerting severity is a no-op: no POST, and total_alerts_sent,
\* failed_alerts and the alert history stay as they were.
C11_NoSinkIsNoOp ==
    [][\A t \in Tasks :
         (/\ pc[t] = "await_search"
          /\ cyc'[t].alert.eligible
          /\ ~alert_manager.slack_webhook_url
          /\ ~alert_manager.generic_webhook_url)
            => /\ cyc'[t].alert.posted = {}
               /\ alert_manager'.total_alerts_sent
                     = alert_manager.total_alerts_sent
               /\ alert_manager'.failed_alerts = alert_manager.failed_alerts
               /\ alert_manager'.alert_history
                     = alert_manager.alert_history]_vars

\* C12: incident ids are monotonic per process: an incident created in a
\* cycle gets an id greater than the id of every incident already in the
\* incident log, also when both are created within the same second.
C12_IncidentIdsMonotonic ==
    [][\A t \in Tasks :
         (pc[t] = "await_search" /\ cyc'[t].created = 1)
            => \A i \in DOMAIN incidents :
                  incidents[i].id[2] < incidents'[Len(incidents')].id[2]]_vars

\* The first position of a step in the list of a cycle's steps, 0 if absent.
FirstPos(steps, name) ==
    IF \E i \in DOMAIN steps : steps[i] = name
    THEN CHOOSE i \in DOMAIN steps :
           /\ steps[i] = name
           /\ \A j \in 1..(i - 1) : steps[j] # name
    ELSE 0

\* The limits of the HTTP handlers that read the incident log.
ReadLimits == {10, 100}

\* C13: an incident becomes readable through get_recent_incidents only
\* after its RCA and alert phases have finished, and what a reader has been
\* able to see of the incident log is never modified afterwards.
C13_ReadersSeeFinishedIncidents ==
    [][/\ \A i \in DOMAIN incidents :
             i <= Len(incidents') /\ incidents'[i] = incidents[i]
       /\ \A t \in Tasks :
             (pc[t] = "await_search" /\ cyc'[t].stored > 0)
                => LET steps == cyc'[t].steps
                   IN /\ 0 < FirstPos(steps, "rca")
                      /\ FirstPos(steps, "rca") < FirstPos(steps, "alert")
                      /\ FirstPos(steps, "alert") < FirstPos(steps, "store")
       /\ \A limit \in ReadLimits :
             get_recent_incidents(incidents', limit)
                # get_recent_incidents(incidents, limit)
                => \E t \in Tasks :
                      /\ pc[t] = "await_search"
                      /\ cyc'[t].outcome = "completed"
                      /\ cyc'[t].alert.called]_vars

\* A reader gets an incident that a cycle has just stored.
C13_Witness ==
    \E t \in Tasks :
       /\ cyc[t].stored > 0
       /\ LET read == get_recent_incidents(incidents, 10)
          IN read # <<>> /\ read[Len(read)].id = IncidentId(clock)

\* C14: the counters logs_processed, anomalies_detected and
\* incidents_created of MonitoringState never decrease, whatever happens:
\* cycles, skipped cycles, cycles that raise, manual triggers, stop().
C14_CountersNeverDecrease ==
    [][/\ state'.logs_processed >= state.logs_processed
       /\ state'.anomalies_detected >= state.anomalies_detected
       /\ state'.incidents_created >= state.incidents_created]_vars

\* The monitor has been stopped with all three counters above zero.
C14_Witness ==
    /\ state.status = "stopped"
    /\ ~running
    /\ state.logs_processed > 0
    /\ state.anomalies_detected > 0
    /\ state.incidents_created > 0

\* C15: once stop() has run (the lifespan shutdown), the running flag is
\* clear, the scheduler is in no cycle and begins none any more, and the
\* cycle that was in flight when stop() ran has been cancelled at the await
\* it was suspended in.
C15_StopEndsScheduler ==
    /\ [](es_closed
            => /\ ~running
               /\ pc["sched"] \in {"cancelled", "exited"}
               /\ cyc["sched"].outcome # "running")
    /\ [][es_closed => pc'["sched"] = pc["sched"]]_vars
    /\ [][(~es_closed /\ es_closed')
            => /\ state'.status = "stopped"
               /\ cyc["sched"].outcome = "running"
                     => cyc'["sched"].outcome = "cancelled"
               /\ cyc["sched"].outcome # "running"
                     => pc["sched"] = "sleeping"]_vars

\* stop() has run while a cycle of the scheduler was in flight.
C15_Witness ==
    /\ es_closed
    /\ pc["sched"] = "cancelled"
    /\ cyc["sched"].outcome = "cancelled"

\* C16: every incident has at most 5 sample logs, they are the first error
\* records of the cycle's batch in batch order, and the message of every
\* sample log is at most 200 characters long (the first 200 of the
\* record's message).
C16_SampleLogsBounded ==
    /\ \A i \in DOMAIN incidents :
          /\ Len(incidents[i].sample_logs) <= 5
          /\ \A k \in DOMAIN incidents[i].sample_logs :
                Len(incidents[i].sample_logs[k].message) <= 200
    /\ \A t \in Tasks :
          (cyc[t].created = 1 /\ cyc[t].stored > 0)
             => LET samples == incidents[Len(incidents)].sample_logs
                    errs == SelectSeq(cyc[t].logs, IsErrorLog)
                IN /\ Len(samples) = (IF Len(errs) < 5 THEN Len(errs) ELSE 5)
                   /\ \A k \in DOMAIN samples :
                         /\ samples[k].level = errs[k].level
                         /\ samples[k].message
                               = (IF Len(errs[k].message) <= 200
                                  THEN errs[k].message
                                  ELSE SubSeq(errs[k].message, 1, 200))

\* An incident built from a batch with more than five error records, one
\* of the first five with a message longer than 200 characters.
C16_Witness ==
    \E t \in Tasks :
       /\ cyc[t].created = 1
       /\ cyc[t].stored > 0
       /\ Len(SelectSeq(cyc[t].logs, IsErrorLog)) > 5
       /\ Len(incidents[Len(incidents)].sample_logs) = 5
       /\ \E k \in 1..5 :
             /\ Len(SelectSeq(cyc[t].logs, IsErrorLog)[k].message) > 200
             /\ Len(incidents[Len(incidents)].sample_logs[k].message) = 200

\* C17: for a batch in which one identical message accounts for more than
\* 50% of the error records and occurs more than 5 times, the rule detector
\* emits a dominant_error_pattern anomaly whose score is that share, with
\* the severity of that score (15 of 20 gives 0.75 and "high").
C17_DominantErrorPattern ==
    (fn_call.fn = "detect_error_patterns" /\ fn_call.done)
       => LET logs == fn_call.logs
              errs == {i \in DOMAIN logs : IsErrorLog(logs[i])}
              Same(m) == {i \in errs : logs[i].message = m}
          IN \A m \in {logs[i].message : i \in errs} :
                (/\ 2 * Cardinality(Same(m)) > Cardinality(errs)
                 /\ Cardinality(Same(m)) > 5)
                   => \E k \in DOMAIN fn_call.out :
                         LET a == fn_call.out[k]
                         IN /\ a.anomaly_type = "dominant_error_pattern"
                            /\ a.score.num * Cardinality(errs)
                                  = Cardinality(Same(m)) * a.score.den
                            /\ a.severity = calculate_severity(a.score)

\* C18: for a batch of 20 logs in which endpoint /api/x has 10 requests, 8
\* of them errors, and the other 10 logs are unrelated INFO records, the
\* correlation engine emits one endpoint_error_correlation anomaly naming
\* /api/x with error_rate 0.8 and severity critical.
C18_EndpointCorrelationExample ==
    (/\ fn_call.fn = "correlate_error_with_endpoint"
     /\ fn_call.done
     /\ fn_call.logs = Repeat(GetFailedLog, 8) \o Repeat(GetServedLog, 2)
                          \o Repeat(InfoLog, 10))
       => /\ Len(fn_call.out) = 1
          /\ fn_call.out[1].anomaly_type = "endpoint_error_correlation"
          /\ fn_call.out[1].endpoint = "/api/x"
          /\ 10 * fn_call.out[1].error_rate.num = 8 * fn_call.out[1].error_rate.den
          /\ fn_call.out[1].severity = "critical"

\* C19: a cycle of the scheduler that processes a non-empty batch invokes
\* the rule detector, invokes the time-series detector exactly when
\* check_count is a multiple of 3 and the correlation engine exactly when
\* check_count is a multiple of 2; check_count advances by one after each
\* cycle that returns without an exception and stays after one that raises.
C19_DetectorSchedule ==
    [][(pc["sched"] \in {"await_health", "await_search"}
          /\ cyc'["sched"].outcome \in Ended)
         => LET c == cyc'["sched"]
                invoked == {c.steps[i] : i \in DOMAIN c.steps}
            IN /\ c.outcome \in {"raised", "completed"}
                  => /\ "rule" \in invoked
                     /\ "ts" \in invoked <=> check_count % 3 = 0
                     /\ "corr" \in invoked <=> check_count % 2 = 0
               /\ check_count' = IF c.outcome = "raised" THEN check_count
                                 ELSE check_count + 1]_vars

\* C20: within one cycle the steps come in this order: baseline update,
\* baseline query, time-series append, detector runs, fusion, incident
\* synthesis, RCA, alert fan-out, and only after these the updates of the
\* counters logs_processed, anomalies_detected and incidents_created.
C20_StepOrder ==
    \A t \in Tasks :
       (cyc[t].outcome = "completed" /\ cyc[t].created = 1)
          => LET At(name) == FirstPos(cyc[t].steps, name)
             IN /\ 0 < At("baseline_update")
                /\ At("baseline_update") < At("baseline_query")
                /\ At("baseline_query") < At("ts_append")
                /\ At("ts_append") < At("rule")
                /\ At("rule") < At("fuse")
                /\ At("fuse") < At("synthesize")
                /\ At("synthesize") < At("rca")
                /\ At("rca") < At("alert")
                /\ At("alert") < At("count_logs")
                /\ At("alert") < At("count_anomalies")
                /\ At("alert") < At("count_incident")

\* Whether |x - mean| / std is beyond s, for a std above zero.
BeyondSigmas(x, stats, s) ==
    LET d == x * stats.mean.den - stats.mean.num
    IN d * d * stats.std_sq.den
          > s * s * stats.std_sq.num * stats.mean.den * stats.mean.den

\* C21: is_anomalous answers (false, none) whenever the baseline that
\* get_expected_baseline selects for the timestamp has fewer than 5
\* samples; otherwise it answers true exactly when the z-score of the
\* error rate or of the log volume against that baseline is beyond the
\* sensitivity.
C21_IsAnomalousAgainstSelected ==
    baseline_call.fn = "is_anomalous"
       => LET a == baseline_call.args
              selected == get_expected_baseline(adaptive_baseline, a.ts).baseline
          IN IF selected.error_rate.samples < 5
             THEN /\ ~baseline_call.out.anomalous
                  /\ baseline_call.out.details = NoDetails
             ELSE baseline_call.out.anomalous
                     <=> \/ BeyondSigmas(a.error_rate, selected.error_rate,
                                         a.sensitivity)
                         \/ BeyondSigmas(a.log_volume, selected.log_volume,
                                         a.sensitivity)

\* The weekday baseline is the selected one and the log volume alone is
\* beyond the sensitivity.
C21_Witness ==
    /\ baseline_call.fn = "is_anomalous"
    /\ get_expected_baseline(adaptive_baseline, baseline_call.args.ts).level
          = "weekday"
    /\ baseline_call.out.anomalous
    /\ ~baseline_call.out.details.error_is_anomalous
    /\ baseline_call.out.details.volume_is_anomalous

\* C22: get_expected_baseline(ts) returns the hourly baseline of ts.hour
\* when it has at least 10 samples, otherwise the weekday baseline of
\* ts.weekday when that has at least 10 samples, otherwise the overall
\* baseline.
C22_MostSpecificBaseline ==
    baseline_call.fn = "get_expected_baseline"
       => LET ts == baseline_call.args.ts
              hourly == adaptive_baseline.hourly_baselines[ts.hour]
              weekday == adaptive_baseline.daily_baselines[ts.weekday]
              out == baseline_call.out
          IN /\ hourly.error_rate.samples >= 10
                  => out.level = "hourly" /\ out.baseline = hourly
             /\ (hourly.error_rate.samples < 10
                 /\ weekday.error_rate.samples >= 10)
                  => out.level = "weekday" /\ out.baseline = weekday
             /\ (hourly.error_rate.samples < 10
                 /\ weekday.error_rate.samples < 10)
                  => /\ out.level = "overall"
                     /\ out.baseline = adaptive_baseline.overall_baseline

\* The hourly and the weekday baseline both have 10 samples and differ.
C22_Witness ==
    /\ baseline_call.fn = "get_expected_baseline"
    /\ baseline_call.out.level = "hourly"
    /\ adaptive_baseline.daily_baselines[baseline_call.args.ts.weekday]
          .error_rate.samples >= 10
    /\ adaptive_baseline.daily_baselines[baseline_call.args.ts.weekday]
          # baseline_call.out.baseline

\* The error_rate sample counts of the buckets of a dict, added up.
RECURSIVE SumSamples(_, _)
SumSamples(buckets, keys) ==
    IF keys = {} THEN 0
    ELSE LET k == CHOOSE x \in keys : TRUE
         IN buckets[k].error_rate.samples + SumSamples(buckets, keys \ {k})

OverallSamples == adaptive_baseline.overall_baseline.error_rate.samples

\* C23: every update adds exactly one to the overall sample count, and the
\* overall sample count never exceeds the sum of the 24 hourly sample
\* counts nor the sum of the 7 weekday sample counts.
C23_OverallCountBounded ==
    /\ [](/\ OverallSamples
              <= SumSamples(adaptive_baseline.hourly_baselines, 0..23)
          /\ OverallSamples
              <= SumSamples(adaptive_baseline.daily_baselines, 0..6))
    /\ [][baseline_run'.updates = baseline_run.updates + 1
             => adaptive_baseline'.overall_baseline.error_rate.samples
                   = OverallSamples + 1]_vars

\* An update made on baselines loaded from a file without its overall
\* section: the hourly counts add up to more than the overall count.
C23_Witness ==
    /\ baseline_call.fn = "update"
    /\ baseline_run.restarts > 0
    /\ OverallSamples = 1
    /\ SumSamples(adaptive_baseline.hourly_baselines, 0..23) > 10
    /\ SumSamples(adaptive_baseline.daily_baselines, 0..6) > 10

\* C24: after any sequence of samples fed to a fresh baseline, the mean
\* reported for each metric is the arithmetic mean of the samples and the
\* reported stddev is the larger of the metric's floor (0.1 for
\* error_rate, 1.0 for log_volume) and the population standard deviation
\* of the samples; the stddev is compared by its square.
C24_WelfordMatchesSamples ==
    (baseline_run.fed.counted /\ baseline_run.fed.n > 0)
       => \A m \in Metrics :
            LET n == baseline_run.fed.n
                sum == baseline_run.fed.sum[m]
                sum_sq == baseline_run.fed.sum_sq[m]
                reported == adaptive_baseline.overall_baseline[m]
                floor_sq == IF m = "error_rate" THEN Fraction(1, 100)
                            ELSE Fraction(1, 1)
                \* population variance: (n * sum_sq - sum * sum) / n^2
                var_num == n * sum_sq - sum * sum
                var_den == n * n
                clamped == IF var_num * floor_sq.den < floor_sq.num * var_den
                           THEN floor_sq ELSE Fraction(var_num, var_den)
            IN /\ reported.samples = n
               /\ reported.mean.num * n = sum * reported.mean.den
               /\ reported.std_sq.num * clamped.den
                     = clamped.num * reported.std_sq.den

\* C25: loading the persisted baseline is all-or-nothing: when the file is
\* missing, unparsable or lacks a section, the baseline after the load is
\* the fresh initial state, with all 24 hourly and 7 weekday buckets at
\* zero samples and the default overall baseline; and every hour and
\* weekday keeps its bucket, so that later updates find it.
C25_LoadAllOrNothing ==
    /\ (/\ baseline_call.fn = "_load_baselines"
        /\ \/ baseline_call.args.file.kind \in {"missing", "unparsable"}
           \/ baseline_call.args.file.sections # Sections)
          => adaptive_baseline = FreshBaseline
    /\ DOMAIN adaptive_baseline.hourly_baselines = 0..23
    /\ DOMAIN adaptive_baseline.daily_baselines = 0..6

\* C26: for any batch containing five error events that fall within 30
\* seconds of each other and carry at least 3 distinct messages,
\* correlate_error_cascade emits exactly one error_cascade anomaly with
\* severity high, and it reports the number of distinct messages of the
\* first five-event window that matches.
C26_ErrorCascade ==
    (fn_call.fn = "correlate_error_cascade" /\ fn_call.done)
       => LET logs == fn_call.logs
              errors == {i \in DOMAIN logs : logs[i].level = "ERROR"}
              Within(five) == \A i, j \in five :
                  logs[i].timestamp - logs[j].timestamp <= 30
              Distinct(five) == Cardinality({logs[i].message : i \in five})
              fives == {five \in SUBSET errors :
                          /\ Cardinality(five) = 5
                          /\ Within(five)
                          /\ Distinct(five) >= 3}
              \* the windows of five events next to each other in time
              Next5(five) == \A k \in errors \ five :
                  \/ \A i \in five : logs[k].timestamp < logs[i].timestamp
                  \/ \A i \in five : logs[k].timestamp > logs[i].timestamp
              Begins(five) == CHOOSE t \in {logs[i].timestamp : i \in five} :
                                \A i \in five : t <= logs[i].timestamp
              windows == {five \in fives : Next5(five)}
          IN fives # {}
               => /\ Len(fn_call.out) = 1
                  /\ fn_call.out[1].anomaly_type = "error_cascade"
                  /\ fn_call.out[1].severity = "high"
                  /\ \A w \in windows :
                        (\A v \in windows : Begins(w) <= Begins(v))
                           => fn_call.out[1].unique_error_types = Distinct(w)

\* C27: each synthesized incident appears exactly once in the monitor's
\* incident log and incidents_created grows by one per call of
\* _create_incident: a cycle that completes adds to the log and to the
\* counter exactly the number of incidents it synthesized.
C27_IncidentStoredOnce ==
    /\ [](\A t \in Tasks :
            cyc[t].outcome = "completed" => cyc[t].stored = cyc[t].created)
    /\ [][\A t \in Tasks :
            (cyc[t].outcome = "running" /\ cyc'[t].outcome = "completed")
               => /\ Len(incidents') = Len(incidents) + cyc'[t].created
                  /\ state'.incidents_created
                        = state.incidents_created + cyc'[t].created]_vars

\* C28: whenever a cycle runs to completion with a healthy facade, the
\* monitor status is healthy afterwards, also when the cycle's batch is
\* empty: a status of degraded or error left by an earlier cycle is
\* cleared.
C28_HealthyCycleClearsStatus ==
    \A t \in Tasks :
       (cyc[t].health = "ok" /\ cyc[t].outcome \in {"empty", "completed"})
          => state.status = "healthy"

\* C29: once stop() has set the monitor status to stopped, the status
\* stays stopped: no step of a cycle in flight, of the scheduler loop or of
\* a background task changes it.
C29_StoppedStaysStopped ==
    [][state.status = "stopped" => state'.status = "stopped"]_vars

\* The scheduler's last cycle went through the detectors with a non-empty
\* batch, and whether it called the named detector.
ProcessedBatch ==
    /\ cyc["sched"].outcome \in {"completed", "raised"}
    /\ cyc["sched"].logs # <<>>

Invoked(name) ==
    \E i \in DOMAIN cyc["sched"].steps : cyc["sched"].steps[i] = name

\* C30: if the monitor keeps running and infinitely many cycles process a
\* non-empty batch, then the time-series detector and the correlation
\* engine are each invoked infinitely often, whatever the cycles skipped
\* in between (unhealthy facade, empty batch).
C30_DetectorsInvokedForever ==
    ([]<>ProcessedBatch) => (([]<>Invoked("ts")) /\ ([]<>Invoked("corr")))

====
